---- MODULE Spec2Model ----
(***************************************************************************)
(* Model of the Public-Inbox archiver adapter for GNU Mailman              *)
(* (src/mailman_public_inbox/__init__.py, class PublicInbox).              *)
(*                                                                         *)
(* Strings are sequences of atoms.  An atom is either one of the           *)
(* separator characters the code looks at (".", newline, "/", "<", ">"),   *)
(* an undecodable byte, or a word: a maximal non-empty run of other        *)
(* characters.  No two words are adjacent, so equality of atom sequences   *)
(* is equality of the strings they stand for.                              *)
(***************************************************************************)
EXTENDS Integers, Sequences, FiniteSets, TLC

VARIABLES
    file,            \* the external public-inbox config file, as its entries
    pi_config,       \* self.pi_config: the cached merged mapping
    auto_create,     \* self.auto_create (a string read from the adapter config)
    reload_command,  \* self.reload_command (a string, possibly empty)
    is_enabled,      \* PublicInbox.is_enabled, assigned by the host
    registered,      \* whether __init__ subscribed list_deleting_handler
    last             \* observation of the most recent operation

vars == <<file, pi_config, auto_create, reload_command, is_enabled, registered, last>>

-----------------------------------------------------------------------------
(* Atoms and Python values *)

DOT == "."
NL == "LF"
SLASH == "/"
LT == "<"
GT == ">"
BADBYTE == "0xFF"

\* Python's None, distinct from every string
None == <<"None">>

\* Python's empty dict {} / empty str ''
EmptyDict == <<>>

\* truthiness of a str and of a dict
StrTruthy(s) == s /= ""

SeqTruthy(s) == s /= <<>> /\ s /= None

DictTruthy(d) == DOMAIN d /= {}

\* dict.get(key) with the default None
DictGet(d, k) == IF k \in DOMAIN d THEN d[k] ELSE None

\* d[k] = v on a dict
DictSet(d, k, v) == [x \in (DOMAIN d) \cup {k} |-> IF x = k THEN v ELSE d[x]]

-----------------------------------------------------------------------------
(* str.split and bytes.split *)

HasAtom(s, a) == \E i \in 1..Len(s) : s[i] = a

FirstIndex(s, a) == CHOOSE i \in 1..Len(s) : s[i] = a /\ \A j \in 1..(i - 1) : s[j] /= a

LastIndex(s, a) == CHOOSE i \in 1..Len(s) : s[i] = a /\ \A j \in (i + 1)..Len(s) : s[j] /= a

\* s.split(sep): all the parts
RECURSIVE Split(_, _)
Split(s, sep) ==
    IF ~HasAtom(s, sep) THEN <<s>>
    ELSE LET i == FirstIndex(s, sep)
         IN <<SubSeq(s, 1, i - 1)>> \o Split(SubSeq(s, i + 1, Len(s)), sep)

\* s.split(sep, 1): at most one split
Split1(s, sep) ==
    IF ~HasAtom(s, sep) THEN <<s>>
    ELSE LET i == FirstIndex(s, sep)
         IN <<SubSeq(s, 1, i - 1), SubSeq(s, i + 1, Len(s))>>

\* bytes.decode() raises UnicodeDecodeError on an undecodable byte
Decodable(s) == ~HasAtom(s, BADBYTE)

-----------------------------------------------------------------------------
(* The adapter's configuration, read once by __init__ *)

base_url == <<"http://x", SLASH>>

public_inbox_home == <<SLASH, "srv">>

AutoCreateValues == {"", "yes"}

ReloadCommandValues == {"", "reload-pi"}

-----------------------------------------------------------------------------
(* _run_command: every external command is logged with its exit status and  *)
(* the cached mapping at the moment it was started.  s is the instance      *)
(* state threaded through a call: [pi_config, file, ev].                    *)

Event(cmd, arg, ok, cache) == [cmd |-> cmd, arg |-> arg, ok |-> ok, cache |-> cache]

RunCommand(s, cmd, arg, ok) ==
    [s EXCEPT !.ev = Append(@, Event(cmd, arg, ok, s.pi_config))]

\* stdout of `git config -z -l`: every entry is terminated by NUL, so
\* split(b'\0') yields the entries followed by one empty piece; a failing
\* git prints nothing
DumpStdout(f, ok) == IF ok THEN f \o <<<<>>>> ELSE <<<<>>>>

-----------------------------------------------------------------------------
(* _parse_publicinbox_config *)

IndexOfName(cache, name) ==
    IF \E i \in 1..Len(cache) : cache[i].name = name
    THEN CHOOSE i \in 1..Len(cache) : cache[i].name = name
    ELSE 0

\* ParseEntry with the arity test loosened to "at least three parts"
ParseEntry_AtLeastThree(cache, cfg) ==
    LET kv == Split1(cfg, NL)
    IN IF Len(kv) /= 2 \/ ~Decodable(kv[1]) \/ ~Decodable(kv[2]) THEN cache
       ELSE LET parts == Split(kv[1], DOT)
            IN IF parts[1] /= <<"publicinbox">> \/ Len(parts) < 3 THEN cache
               ELSE LET name == parts[2]
                        conf == parts[3]
                        c1 == IF IndexOfName(cache, name) = 0
                              THEN Append(cache, [name |-> name, conf |-> EmptyDict])
                              ELSE cache
                        i == IndexOfName(c1, name)
                    IN [c1 EXCEPT ![i].conf = DictSet(@, conf, kv[2])]

\* the body of the for loop, for one piece of stdout
ParseEntry(cache, cfg) ==
    LET kv == Split1(cfg, NL)
    IN IF Len(kv) /= 2 \/ ~Decodable(kv[1]) \/ ~Decodable(kv[2]) THEN cache
       ELSE LET parts == Split(kv[1], DOT)
            IN IF parts[1] /= <<"publicinbox">> \/ Len(parts) /= 3 THEN cache
               ELSE LET name == parts[2]
                        conf == parts[3]
                        c1 == IF IndexOfName(cache, name) = 0
                              THEN Append(cache, [name |-> name, conf |-> EmptyDict])
                              ELSE cache
                        i == IndexOfName(c1, name)
                    IN [c1 EXCEPT ![i].conf = DictSet(@, conf, kv[2])]

RECURSIVE ParseEntries(_, _)
ParseEntries(cache, entries) ==
    IF entries = <<>> THEN cache
    ELSE ParseEntries(ParseEntry(cache, Head(entries)), Tail(entries))

ParsePublicinboxConfig(s, dumpOk) ==
    IF s.pi_config /= <<>> THEN s
    ELSE LET r == RunCommand(s, "config-dump", <<>>, dumpOk)
         IN [r EXCEPT !.pi_config = ParseEntries(<<>>, DumpStdout(s.file, dumpOk))]

-----------------------------------------------------------------------------
(* _get_publicinbox_conf *)

\* FindConf with one pass over all records for the address, then one for the listid
RECURSIVE FindByField(_, _, _)
FindByField(cache, field, value) ==
    IF cache = <<>> THEN EmptyDict
    ELSE IF DictGet(Head(cache).conf, field) = value THEN Head(cache).conf
    ELSE FindByField(Tail(cache), field, value)

FindConf_AddressPass(cache, mlist) ==
    LET byAddress == FindByField(cache, <<"address">>, mlist.posting_address)
    IN IF DictTruthy(byAddress) THEN byAddress
       ELSE FindByField(cache, <<"listid">>, mlist.list_id)

RECURSIVE FindConf(_, _)
FindConf(cache, mlist) ==
    IF cache = <<>> THEN EmptyDict
    ELSE LET conf == Head(cache).conf
         IN IF DictGet(conf, <<"address">>) = mlist.posting_address THEN conf
            ELSE IF DictGet(conf, <<"listid">>) = mlist.list_id THEN conf
            ELSE FindConf(Tail(cache), mlist)

GetPublicinboxConf(s, mlist, dumpOk) ==
    LET p == ParsePublicinboxConfig(s, dumpOk)
    IN [s |-> p, ret |-> FindConf(p.pi_config, mlist)]

-----------------------------------------------------------------------------
(* urllib.parse.urljoin and os.path.join, on the strings the adapter builds:  *)
(* a base that is empty, relative, or an origin atom (scheme://host)          *)
(* followed by a path, and a reference that is a relative path without dot    *)
(* segments, or a path starting with one "/".                                 *)

Origins == {"http://x"}

OriginOf(base) == IF base /= <<>> /\ Head(base) \in Origins THEN <<Head(base)>> ELSE <<>>

UrlJoin(base, url) ==
    IF base = <<>> THEN url
    ELSE IF url = <<>> THEN base
    ELSE IF Head(url) = SLASH THEN OriginOf(base) \o url
    ELSE IF HasAtom(base, SLASH) THEN SubSeq(base, 1, LastIndex(base, SLASH)) \o url
    ELSE IF OriginOf(base) /= <<>> THEN OriginOf(base) \o <<SLASH>> \o url
    ELSE url

PathJoin(a, b) ==
    IF b /= <<>> /\ Head(b) = SLASH THEN b
    ELSE IF a = <<>> \/ a[Len(a)] = SLASH THEN a \o b
    ELSE a \o <<SLASH>> \o b

-----------------------------------------------------------------------------
(* list_url and permalink *)

ListUrl(s, mlist, dumpOk) ==
    LET g == GetPublicinboxConf(s, mlist, dumpOk)
    IN [s |-> g.s,
        ret |-> IF DictTruthy(g.ret) THEN DictGet(g.ret, <<"url">>) ELSE None]

StripLeft(id) == IF id /= <<>> /\ Head(id) = LT THEN Tail(id) ELSE id

StripRight(id) == IF id /= <<>> /\ id[Len(id)] = GT THEN SubSeq(id, 1, Len(id) - 1) ELSE id

Permalink(s, mlist, msg, dumpOk) ==
    LET l == ListUrl(s, mlist, dumpOk)
        msg_id == StripRight(StripLeft(msg.message_id))
    IN [s |-> l.s,
        ret |-> IF SeqTruthy(l.ret) THEN UrlJoin(l.ret, msg_id \o <<SLASH>>) ELSE None]

-----------------------------------------------------------------------------
(* The external tools that change the config file.  public-inbox-init adds  *)
(* the address, url and inboxdir entries of the inbox's section unless they *)
(* are there already; git config --remove-section drops every entry of the  *)
(* section and fails when there is none.  A failing command leaves the file *)
(* as it was.                                                               *)

SectionOf(name) == <<"publicinbox", DOT>> \o name

ConfigEntry(name, field, value) == SectionOf(name) \o <<DOT, field, NL>> \o value

AddEntry(f, e) == IF \E i \in 1..Len(f) : f[i] = e THEN f ELSE Append(f, e)

InitFile(f, name, inboxdir, url, address) ==
    AddEntry(AddEntry(AddEntry(f, ConfigEntry(name, "address", address)),
                      ConfigEntry(name, "url", url)),
             ConfigEntry(name, "inboxdir", inboxdir))

InSection(e, section) ==
    LET k == Split1(e, NL)[1]
        n == Len(section)
    IN /\ Len(k) = n + 2
       /\ SubSeq(k, 1, n) = section
       /\ k[n + 1] = DOT
       /\ k[n + 2] /= DOT

HasSection(f, section) == \E i \in 1..Len(f) : InSection(f[i], section)

RemoveSection(f, section) ==
    LET Keep(e) == ~InSection(e, section)
    IN SelectSeq(f, Keep)

RunInit(s, mlist, ok) ==
    LET r == RunCommand(s, "public-inbox-init", mlist.list_name, ok)
    IN IF ~ok THEN r
       ELSE [r EXCEPT !.file = InitFile(@, mlist.list_name,
                                        PathJoin(public_inbox_home, mlist.list_name),
                                        UrlJoin(base_url, mlist.list_name \o <<SLASH>>),
                                        mlist.fqdn_listname)]

RunRemoveSection(s, mlist, exitOk) ==
    LET section == SectionOf(mlist.list_name)
        ok == exitOk /\ HasSection(s.file, section)
        r == RunCommand(s, "remove-section", section, ok)
    IN IF ~ok THEN r ELSE [r EXCEPT !.file = RemoveSection(@, section)]

-----------------------------------------------------------------------------
(* _reload_public_inbox, _ensure_list_created, archive_message,             *)
(* list_deleting_handler.  x holds the exit statuses of the commands a call *)
(* may run: x.dump1, x.dump2, x.init, x.reload, x.mda, x.remove.            *)

\* _reload_public_inbox returning before the cache is cleared when no reload
\* command is configured
ReloadPublicInbox_ReturnsBeforeClear(s, reloadOk) ==
    IF ~StrTruthy(reload_command) THEN s
    ELSE RunCommand([s EXCEPT !.pi_config = <<>>], "reload", <<reload_command>>, reloadOk)

ReloadPublicInbox(s, reloadOk) ==
    LET c == [s EXCEPT !.pi_config = <<>>]
    IN IF ~StrTruthy(reload_command) THEN c
       ELSE RunCommand(c, "reload", <<reload_command>>, reloadOk)

\* _ensure_list_created reloading after a failed init as well
EnsureListCreated_ReloadsOnFailure(s, mlist, x) ==
    IF ~StrTruthy(auto_create) THEN [s |-> s, ret |-> FALSE]
    ELSE LET g == GetPublicinboxConf(s, mlist, x.dump1)
         IN IF DictTruthy(g.ret) THEN [s |-> g.s, ret |-> TRUE]
            ELSE IF mlist.archive_policy /= "public" \/ ~mlist.advertised
                 THEN [s |-> g.s, ret |-> FALSE]
            ELSE LET r == RunInit(g.s, mlist, x.init)
                 IN [s |-> ReloadPublicInbox(r, x.reload), ret |-> x.init]

\* _ensure_list_created returning true after a successful init without reloading
EnsureListCreated_NoReload(s, mlist, x) ==
    IF ~StrTruthy(auto_create) THEN [s |-> s, ret |-> FALSE]
    ELSE LET g == GetPublicinboxConf(s, mlist, x.dump1)
         IN IF DictTruthy(g.ret) THEN [s |-> g.s, ret |-> TRUE]
            ELSE IF mlist.archive_policy /= "public" \/ ~mlist.advertised
                 THEN [s |-> g.s, ret |-> FALSE]
            ELSE [s |-> RunInit(g.s, mlist, x.init), ret |-> x.init]

\* _ensure_list_created skipping creation only for lists neither public nor advertised
EnsureListCreated_PolicyAnd(s, mlist, x) ==
    IF ~StrTruthy(auto_create) THEN [s |-> s, ret |-> FALSE]
    ELSE LET g == GetPublicinboxConf(s, mlist, x.dump1)
         IN IF DictTruthy(g.ret) THEN [s |-> g.s, ret |-> TRUE]
            ELSE IF mlist.archive_policy /= "public" /\ ~mlist.advertised
                 THEN [s |-> g.s, ret |-> FALSE]
            ELSE LET r == RunInit(g.s, mlist, x.init)
                 IN IF ~x.init THEN [s |-> r, ret |-> FALSE]
                    ELSE [s |-> ReloadPublicInbox(r, x.reload), ret |-> TRUE]

EnsureListCreated(s, mlist, x) ==
    IF ~StrTruthy(auto_create) THEN [s |-> s, ret |-> FALSE]
    ELSE LET g == GetPublicinboxConf(s, mlist, x.dump1)
         IN IF DictTruthy(g.ret) THEN [s |-> g.s, ret |-> TRUE]
            ELSE IF mlist.archive_policy /= "public" \/ ~mlist.advertised
                 THEN [s |-> g.s, ret |-> FALSE]
            ELSE LET r == RunInit(g.s, mlist, x.init)
                 IN IF ~x.init THEN [s |-> r, ret |-> FALSE]
                    ELSE [s |-> ReloadPublicInbox(r, x.reload), ret |-> TRUE]

\* what a caller of _ensure_list_created sees when it returns
EnsureSeen(e) == [called |-> TRUE, ret |-> e.ret, cache |-> e.s.pi_config, n |-> Len(e.s.ev)]

NotEnsured == [called |-> FALSE, ret |-> FALSE, cache |-> <<>>, n |-> 0]

\* archive_message returning None when the delivery agent fails
ArchiveMessage_NoneOnFailure(s, mlist, msg, x) ==
    LET e == EnsureListCreated(s, mlist, x)
    IN IF ~e.ret THEN [s |-> e.s, ret |-> None, ens |-> EnsureSeen(e)]
       ELSE LET p == Permalink(e.s, mlist, msg, x.dump2)
                m == RunCommand(p.s, "public-inbox-mda", mlist.posting_address, x.mda)
            IN [s |-> m, ret |-> IF x.mda THEN p.ret ELSE None, ens |-> EnsureSeen(e)]

ArchiveMessage(s, mlist, msg, x) ==
    LET e == EnsureListCreated(s, mlist, x)
    IN IF ~e.ret THEN [s |-> e.s, ret |-> None, ens |-> EnsureSeen(e)]
       ELSE LET p == Permalink(e.s, mlist, msg, x.dump2)
                m == RunCommand(p.s, "public-inbox-mda", mlist.posting_address, x.mda)
            IN [s |-> m, ret |-> p.ret, ens |-> EnsureSeen(e)]

\* list_deleting_handler without the final reload
ListDeletingHandler_NoReload(s, mlist, x) ==
    IF ~is_enabled \/ ~StrTruthy(auto_create) THEN s
    ELSE LET g == GetPublicinboxConf(s, mlist, x.dump1)
         IN IF ~DictTruthy(g.ret) THEN g.s
            ELSE RunRemoveSection(g.s, mlist, x.remove)

ListDeletingHandler(s, mlist, x) ==
    IF ~is_enabled \/ ~StrTruthy(auto_create) THEN s
    ELSE LET g == GetPublicinboxConf(s, mlist, x.dump1)
         IN IF ~DictTruthy(g.ret) THEN g.s
            ELSE ReloadPublicInbox(RunRemoveSection(g.s, mlist, x.remove), x.reload)

-----------------------------------------------------------------------------
(* The host's mailing lists and messages *)

MList(name, host, policy, adv) ==
    [list_name |-> <<name>>,
     fqdn_listname |-> <<name \o "@" \o host>>,
     posting_address |-> <<name \o "@" \o host>>,
     list_id |-> <<name, DOT, host>>,
     archive_policy |-> policy,
     advertised |-> adv]

MLists ==
    {MList("dev", "x", p, a) : p \in {"public", "private"}, a \in BOOLEAN}
    \cup {MList("ops", "x", "public", TRUE)}

Msgs == {[message_id |-> <<LT, "m1", GT>>], [message_id |-> <<"m1">>]}

\* at most MaxFailures of the commands one call runs exit non-zero
MaxFailures == 1

ExitStatuses(cmds) ==
    {x \in [cmds -> BOOLEAN] : Cardinality({c \in cmds : ~x[c]}) <= MaxFailures}

ArchiveCmds == {"dump1", "dump2", "init", "reload", "mda"}

DeleteCmds == {"dump1", "remove", "reload"}

NoMsg == [message_id |-> <<>>]

\* config files found at start-up
FileEmpty == <<>>

FileManual ==
    << <<"core", DOT, "bare", NL, "true">>,
       ConfigEntry(<<"old">>, "address", <<"dev@x">>),
       ConfigEntry(<<"old">>, "url", <<"http://x", SLASH, "old", SLASH>>) >>

FileTwo ==
    << ConfigEntry(<<"a">>, "listid", <<"dev", DOT, "x">>),
       ConfigEntry(<<"a">>, "url", <<"http://x", SLASH, "a">>),
       ConfigEntry(<<"dev">>, "address", <<"dev@x">>) >>

InitFiles == {FileEmpty, FileManual, FileTwo}

-----------------------------------------------------------------------------
(* State machine of the adapter.  A call's result is bound once           *)
(* (\E r \in {...}) and its parts assigned from it.                        *)

\* the merged configuration as a lookup would see it: the cache, or the parse
\* of the file when the cache is empty
MergedView == IF pi_config /= <<>> THEN pi_config ELSE ParseEntries(<<>>, DumpStdout(file, TRUE))

\* whether the merged configuration held a record for mlist when the call began
HadMatch(mlist) == DictTruthy(FindConf(MergedView, mlist))

Observed(op, mlist, msg, ret, s, ens) ==
    [op |-> op, mlist |-> mlist, msg |-> msg, ret |-> ret, ev |-> s.ev, ens |-> ens,
     match0 |-> HadMatch(mlist)]

Self == [pi_config |-> pi_config, file |-> file, ev |-> <<>>]

Init ==
    /\ file \in InitFiles
    /\ pi_config = <<>>
    /\ auto_create \in AutoCreateValues
    /\ reload_command \in ReloadCommandValues
    /\ is_enabled = FALSE
    /\ registered = StrTruthy(auto_create)
    /\ last = Observed("none", MList("dev", "x", "public", TRUE), NoMsg, None, Self, NotEnsured)

\* the host assigns is_enabled from its own configuration
HostSetEnabled ==
    /\ is_enabled' \in BOOLEAN \ {is_enabled}
    /\ last' = Observed("set_is_enabled", MList("dev", "x", "public", TRUE), NoMsg, None, Self, NotEnsured)
    /\ UNCHANGED <<file, pi_config, auto_create, reload_command, registered>>

ListUrlCall ==
    \E mlist \in MLists, d \in BOOLEAN :
        \E r \in {ListUrl(Self, mlist, d)} :
           /\ pi_config' = r.s.pi_config
           /\ file' = r.s.file
           /\ last' = Observed("list_url", mlist, NoMsg, r.ret, r.s, NotEnsured)
           /\ UNCHANGED <<auto_create, reload_command, is_enabled, registered>>

PermalinkCall ==
    \E mlist \in MLists, msg \in Msgs, d \in BOOLEAN :
        \E r \in {Permalink(Self, mlist, msg, d)} :
           /\ pi_config' = r.s.pi_config
           /\ file' = r.s.file
           /\ last' = Observed("permalink", mlist, msg, r.ret, r.s, NotEnsured)
           /\ UNCHANGED <<auto_create, reload_command, is_enabled, registered>>

ArchiveMessageCall ==
    \E mlist \in MLists, msg \in Msgs, x \in ExitStatuses(ArchiveCmds) :
        \E r \in {ArchiveMessage(Self, mlist, msg, x)} :
           /\ pi_config' = r.s.pi_config
           /\ file' = r.s.file
           /\ last' = Observed("archive_message", mlist, msg, r.ret, r.s, r.ens)
           /\ UNCHANGED <<auto_create, reload_command, is_enabled, registered>>

\* the host publishes ListDeletingEvent; zope.event runs the subscribed handler
ListDeleting ==
    \E mlist \in MLists, x \in ExitStatuses(DeleteCmds) :
        /\ registered
        /\ \E s \in {ListDeletingHandler(Self, mlist, x)} :
              /\ pi_config' = s.pi_config
              /\ file' = s.file
              /\ last' = Observed("list_deleting", mlist, NoMsg, None, s, NotEnsured)
        /\ UNCHANGED <<auto_create, reload_command, is_enabled, registered>>

Next ==
    \/ HostSetEnabled
    \/ ListUrlCall
    \/ PermalinkCall
    \/ ArchiveMessageCall
    \/ ListDeleting

Spec == Init /\ [][Next]_vars

-----------------------------------------------------------------------------
(* The parser and the lookup on their own: the file is any sequence of at   *)
(* most MaxRaw pieces of RawPool, and the calls are _parse_publicinbox_     *)
(* config and _get_publicinbox_conf.                                        *)

MaxRaw == 3

RawPool ==
    { ConfigEntry(<<"a">>, "address", <<"dev@x">>),
      ConfigEntry(<<"a">>, "listid", <<"dev", DOT, "x">>),
      ConfigEntry(<<"b">>, "address", <<"dev@x">>),
      ConfigEntry(<<"a">>, "address", <<"ops@x", NL, "y">>),
      ConfigEntry(<<"a", DOT, "b">>, "address", <<"dev@x">>),
      <<"core", DOT, "a", DOT, "address", NL, "dev@x">>,
      <<"publicinbox", DOT, "address", NL, "dev@x">>,
      <<"publicinbox", DOT, "a", DOT, "address">>,
      ConfigEntry(<<"b">>, "listid", <<BADBYTE>>) }

RECURSIVE SeqsUpTo(_, _)
SeqsUpTo(S, n) ==
    IF n = 0 THEN {<<>>}
    ELSE LET shorter == SeqsUpTo(S, n - 1)
         IN shorter \cup {Append(q, e) : q \in shorter, e \in S}

LookupLists == {MList("dev", "x", "public", TRUE), MList("ops", "x", "public", TRUE)}

InitParse ==
    /\ file \in SeqsUpTo(RawPool, MaxRaw)
    /\ pi_config = <<>>
    /\ auto_create = "yes"
    /\ reload_command = ""
    /\ is_enabled = FALSE
    /\ registered = TRUE
    /\ last = Observed("none", MList("dev", "x", "public", TRUE), NoMsg, None, Self, NotEnsured)

ParseCall ==
    \E d \in BOOLEAN :
        \E r \in {ParsePublicinboxConfig(Self, d)} :
           /\ pi_config' = r.pi_config
           /\ file' = r.file
           /\ last' = Observed("parse", MList("dev", "x", "public", TRUE), NoMsg, None, r, NotEnsured)
           /\ UNCHANGED <<auto_create, reload_command, is_enabled, registered>>

GetConfCall ==
    \E mlist \in LookupLists, d \in BOOLEAN :
        \E r \in {GetPublicinboxConf(Self, mlist, d)} :
           /\ pi_config' = r.s.pi_config
           /\ file' = r.s.file
           /\ last' = Observed("get_conf", mlist, NoMsg, r.ret, r.s, NotEnsured)
           /\ UNCHANGED <<auto_create, reload_command, is_enabled, registered>>

NextParse ==
    \/ ParseCall
    \/ GetConfCall

SpecParse == InitParse /\ [][NextParse]_vars

-----------------------------------------------------------------------------
(* Properties.  last.ev is the sequence of commands the most recent call    *)
(* ran, each with its exit status and the cached mapping when it started;   *)
(* last.ens is what _ensure_list_created returned, the cached mapping at    *)
(* that moment, and the number of commands run until then; last.match0 is  *)
(* whether the merged configuration held a record of the list when the call *)
(* began.  No call changes is_enabled, and the host's assignment to it is   *)
(* itself recorded in last, so is_enabled is the value the call ran under.  *)

Ran(cmd) == \E i \in 1..Len(last.ev) : last.ev[i].cmd = cmd

InitRan(i, ok) ==
    /\ i \in 1..Len(last.ev)
    /\ last.ev[i].cmd = "public-inbox-init"
    /\ last.ev[i].ok = ok

NoDumpFailed == \A i \in 1..Len(last.ev) : last.ev[i].cmd = "config-dump" => last.ev[i].ok

PublicAndAdvertised(mlist) == mlist.archive_policy = "public" /\ mlist.advertised

\* the records of a mapping that match mlist on address or on listid
Matching(cache, mlist) ==
    {i \in 1..Len(cache) :
        \/ /\ <<"address">> \in DOMAIN cache[i].conf
           /\ cache[i].conf[<<"address">>] = mlist.posting_address
        \/ /\ <<"listid">> \in DOMAIN cache[i].conf
           /\ cache[i].conf[<<"listid">>] = mlist.list_id}

Least(S) == CHOOSE i \in S : \A j \in S : i <= j

Greatest(S) == CHOOSE i \in S : \A j \in S : j <= i

\* C1: when _ensure_list_created runs the init command and it exits zero, the
\* reload step runs before the call returns true: the cached mapping is empty
\* when "created" is returned, the reload command (when configured) is the
\* one command run after init, and no command is run when none is configured.
C1_SuccessReloadsBeforeReturn ==
    \A i \in 1..Len(last.ev) :
        InitRan(i, TRUE) =>
            /\ last.ens.called
            /\ last.ens.ret = TRUE
            /\ last.ens.cache = <<>>
            /\ IF StrTruthy(reload_command)
               THEN last.ens.n = i + 1 /\ last.ev[i + 1].cmd = "reload"
               ELSE last.ens.n = i

\* init succeeded with no reload command configured, while the cache held records
C1_Witness ==
    \E i \in 1..Len(last.ev) :
        InitRan(i, TRUE) /\ ~StrTruthy(reload_command) /\ last.ev[i].cache /= <<>>

\* C2: when the init command exits non-zero, _ensure_list_created returns
\* false, no reload command is run and the cached mapping stays as it was when
\* init was started; archive_message then returns None and never runs the
\* delivery agent.
C2_FailureSkipsReload ==
    \A i \in 1..Len(last.ev) :
        InitRan(i, FALSE) =>
            /\ last.ens.called
            /\ last.ens.ret = FALSE
            /\ last.ens.n = i
            /\ last.ens.cache = last.ev[i].cache
            /\ ~Ran("reload")
            /\ last.op = "archive_message" =>
                  /\ last.ret = None
                  /\ ~Ran("public-inbox-mda")
                  /\ Len(last.ev) = i
                  /\ pi_config = last.ev[i].cache

\* init failed with a reload command configured, while the cache held records
C2_Witness ==
    \E i \in 1..Len(last.ev) :
        /\ InitRan(i, FALSE)
        /\ StrTruthy(reload_command)
        /\ last.ev[i].cache /= <<>>
        /\ last.op = "archive_message"

\* C3 as claimed: the cached mapping is empty after every creation attempt in
\* which the init command was invoked, whether it succeeded or failed.
C3_ClearedAfterEveryAttempt ==
    \A i \in 1..Len(last.ev) :
        last.ev[i].cmd = "public-inbox-init" => last.ens.cache = <<>>

\* C3 amended: the cached mapping is cleared after every creation attempt in
\* which the init command exited zero, and the next lookup (the one permalink
\* makes in archive_message) then re-reads the config file; after an attempt
\* in which init exited non-zero the cached mapping is the one init started with.
C3_ClearedAfterSuccessOnly ==
    \A i \in 1..Len(last.ev) :
        /\ InitRan(i, TRUE) =>
              /\ last.ens.cache = <<>>
              /\ last.op = "archive_message" =>
                    /\ Len(last.ev) > last.ens.n
                    /\ last.ev[last.ens.n + 1].cmd = "config-dump"
                    /\ last.ev[last.ens.n + 1].cache = <<>>
        /\ InitRan(i, FALSE) => last.ens.cache = last.ev[i].cache

\* init succeeded in archive_message while the cache held records, and the
\* lookup that followed re-read the file
C3_Witness ==
    \E i \in 1..Len(last.ev) :
        /\ InitRan(i, TRUE)
        /\ last.ev[i].cache /= <<>>
        /\ last.op = "archive_message"
        /\ pi_config /= <<>>

\* C4: the init command is invoked only for a public, advertised list; for a
\* list that is not public or not advertised and has no matching record,
\* _ensure_list_created returns false without init and without a reload (no
\* reload command, and the mapping the lookup built is still cached).
C4_InitOnlyPublicAdvertised ==
    /\ Ran("public-inbox-init") => PublicAndAdvertised(last.mlist)
    /\ ( /\ last.ens.called
         /\ ~PublicAndAdvertised(last.mlist)
         /\ Matching(last.ens.cache, last.mlist) = {} )
       => /\ last.ens.ret = FALSE
          /\ ~Ran("public-inbox-init")
          /\ ~Ran("reload")
          /\ \A i \in 1..Len(last.ev) :
                 (last.ev[i].cmd = "config-dump" /\ last.ev[i].ok)
                     => last.ens.cache = ParseEntries(<<>>, DumpStdout(file, TRUE))

\* a public but unadvertised list without a record, auto-creation on, and a
\* lookup that cached other records
C4_Witness ==
    /\ last.ens.called
    /\ StrTruthy(auto_create)
    /\ last.mlist.archive_policy = "public"
    /\ ~last.mlist.advertised
    /\ Matching(last.ens.cache, last.mlist) = {}
    /\ last.ens.cache /= <<>>
    /\ last.ens.ret = FALSE

\* C5 as claimed: for a list with a matching record in the merged
\* configuration (the config file read without error), archive_message finds
\* the archive created (no init) and runs the delivery agent, whatever the
\* adapter's configuration.
C5_ExistingRecordIsArchived ==
    (last.op = "archive_message" /\ last.match0 /\ NoDumpFailed) =>
        /\ last.ens.ret = TRUE
        /\ ~Ran("public-inbox-init")
        /\ Ran("public-inbox-mda")

\* C6: once the existence/creation check has passed, archive_message runs the
\* delivery agent last and returns the permalink of the mapping cached when
\* delivery started, whatever the agent's exit status; the cached mapping is
\* the one delivery started with.
C6_DeliveryStatusIgnored ==
    (last.op = "archive_message" /\ last.ens.ret) =>
        LET n == Len(last.ev)
            m == last.ev[n]
            hits == Matching(m.cache, last.mlist)
            conf == m.cache[Least(hits)].conf
            id == last.msg.message_id
            bare == SubSeq(id, IF Head(id) = LT THEN 2 ELSE 1,
                           IF id[Len(id)] = GT THEN Len(id) - 1 ELSE Len(id))
        IN /\ n > last.ens.n
           /\ m.cmd = "public-inbox-mda"
           /\ \A i \in 1..(n - 1) : last.ev[i].cmd /= "public-inbox-mda"
           /\ pi_config = m.cache
           /\ last.ret = IF hits /= {} /\ <<"url">> \in DOMAIN conf /\ conf[<<"url">>] /= <<>>
                         THEN UrlJoin(conf[<<"url">>], bare \o <<SLASH>>)
                         ELSE None

\* delivery failed and a permalink was returned all the same
C6_Witness ==
    /\ last.op = "archive_message"
    /\ last.ens.ret
    /\ last.ev /= <<>>
    /\ last.ev[Len(last.ev)].cmd = "public-inbox-mda"
    /\ ~last.ev[Len(last.ev)].ok
    /\ last.ret /= None

\* C7 as claimed, for an enabled adapter that read the config file without
\* error: when a record matches the deleted list, the handler runs the
\* removal command for that record's section and then the reload (cache
\* cleared, reload command run last when configured), also when the removal
\* fails; when no record matches it runs neither.
C7_DeleteRemovesMatchingSection ==
    (last.op = "list_deleting" /\ is_enabled /\ NoDumpFailed) =>
        IF last.match0
        THEN \E i \in 1..Len(last.ev) :
                 /\ last.ev[i].cmd = "remove-section"
                 /\ Matching(last.ev[i].cache, last.mlist) /= {}
                 /\ last.ev[i].arg =
                        SectionOf(last.ev[i].cache[Least(Matching(last.ev[i].cache, last.mlist))].name)
                 /\ pi_config = <<>>
                 /\ IF StrTruthy(reload_command)
                    THEN Len(last.ev) = i + 1 /\ last.ev[i + 1].cmd = "reload"
                    ELSE Len(last.ev) = i
        ELSE ~Ran("remove-section") /\ ~Ran("reload")

\* An entry as the claim reads it: a key, a newline, a value
HasValue(e) == HasAtom(e, NL)

KeyOf(e) == SubSeq(e, 1, FirstIndex(e, NL) - 1)

ValueOf(e) == SubSeq(e, FirstIndex(e, NL) + 1, Len(e))

Dots(k) == {i \in 1..Len(k) : k[i] = DOT}

\* the key is publicinbox.<name>.<field>: two dots, the first right after
\* the word publicinbox
ThreePartKey(e) ==
    /\ HasValue(e)
    /\ Cardinality(Dots(KeyOf(e))) = 2
    /\ Least(Dots(KeyOf(e))) = 2
    /\ KeyOf(e)[1] = "publicinbox"

NameOf(e) == SubSeq(KeyOf(e), 3, Greatest(Dots(KeyOf(e))) - 1)

FieldOf(e) == SubSeq(KeyOf(e), Greatest(Dots(KeyOf(e))) + 1, Len(KeyOf(e)))

ThreePartDecodable(e) == ThreePartKey(e) /\ Decodable(e)

\* cache holds record[name][field] = value exactly for the kept entries of
\* raw, the last kept entry of a (name, field) giving the value
MergedExactly(raw, cache, Kept(_)) ==
    /\ \A i, j \in 1..Len(cache) : cache[i].name = cache[j].name => i = j
    /\ \A i \in 1..Len(raw) :
           Kept(raw[i]) =>
               LET same == {j \in 1..Len(raw) :
                               /\ Kept(raw[j])
                               /\ NameOf(raw[j]) = NameOf(raw[i])
                               /\ FieldOf(raw[j]) = FieldOf(raw[i])}
               IN \E r \in 1..Len(cache) :
                      /\ cache[r].name = NameOf(raw[i])
                      /\ FieldOf(raw[i]) \in DOMAIN cache[r].conf
                      /\ cache[r].conf[FieldOf(raw[i])] = ValueOf(raw[Greatest(same)])
    /\ \A r \in 1..Len(cache) :
           \A f \in DOMAIN cache[r].conf :
               \E i \in 1..Len(raw) :
                   Kept(raw[i]) /\ NameOf(raw[i]) = cache[r].name /\ FieldOf(raw[i]) = f

\* the call read the file, with git exiting zero
ReadFile == \E i \in 1..Len(last.ev) : last.ev[i].cmd = "config-dump" /\ last.ev[i].ok

\* C8 as claimed: the mapping built from an empty cache holds
\* record[name][field] = value exactly for the entries whose key has three
\* dot-separated parts with first part publicinbox, the last one winning.
C8_ThreePartKeysMerged ==
    (last.op = "parse" /\ ReadFile) =>
        MergedExactly(DumpStdout(file, TRUE), pi_config, ThreePartKey)

\* C8 amended: the same, for the entries with such a key whose key and value
\* both decode; an entry with an undecodable byte contributes nothing.
C8_DecodableThreePartKeysMerged ==
    (last.op = "parse" /\ ReadFile) =>
        MergedExactly(DumpStdout(file, TRUE), pi_config, ThreePartDecodable)

\* a file with two kept entries for one (name, field) and different values,
\* and an entry with a four-part key
C8_Witness ==
    /\ last.op = "parse"
    /\ ReadFile
    /\ \E i, j \in 1..Len(file) :
           /\ i < j
           /\ ThreePartDecodable(file[i])
           /\ ThreePartDecodable(file[j])
           /\ NameOf(file[i]) = NameOf(file[j])
           /\ FieldOf(file[i]) = FieldOf(file[j])
           /\ ValueOf(file[i]) /= ValueOf(file[j])
    /\ \E i \in 1..Len(file) : HasValue(file[i]) /\ Cardinality(Dots(KeyOf(file[i]))) = 3

\* C9: _get_publicinbox_conf returns the first record of the merged mapping,
\* in insertion order, that matches on address or on listid, and the empty
\* record when none does.
C9_FirstMatchingRecord ==
    last.op = "get_conf" =>
        LET hits == Matching(pi_config, last.mlist)
        IN IF hits = {} THEN DOMAIN last.ret = {}
           ELSE last.ret = pi_config[Least(hits)].conf

\* an earlier record matching only on listid and a later one matching on address
C9_Witness ==
    /\ last.op = "get_conf"
    /\ \E i, j \in Matching(pi_config, last.mlist) :
           /\ i = Least(Matching(pi_config, last.mlist))
           /\ i < j
           /\ DictGet(pi_config[i].conf, <<"address">>) /= last.mlist.posting_address
           /\ DictGet(pi_config[j].conf, <<"address">>) = last.mlist.posting_address
           /\ last.ret = pi_config[i].conf

\* C10: a non-empty cached mapping is the parse of the current config file.
C10_CacheCoherent ==
    pi_config /= <<>> => pi_config = ParseEntries(<<>>, DumpStdout(file, TRUE))

\* archive_message created the archive of a list that had no record, and the
\* mapping cached afterwards holds the new record
C10_Witness ==
    /\ last.op = "archive_message"
    /\ ~last.match0
    /\ \E i \in 1..Len(last.ev) : InitRan(i, TRUE) /\ last.ev[i].cache /= <<>>
    /\ Matching(pi_config, last.mlist) /= {}

====
